---- MODULE Spec2Model ----
(***************************************************************************)
(* A model of the shell in src/src/lib.rs: the argument tokenizer          *)
(* (step, parse_args), the command parser (Command::parse), the builtins   *)
(* and the read loop (Shell::run).                                         *)
(*                                                                         *)
(* A Rust string is modelled as a sequence of one-character strings, so    *)
(* that splitting, joining, prefix stripping and formatting are computed   *)
(* and not assumed.                                                        *)
(***************************************************************************)
EXTENDS Naturals, Sequences, FiniteSets

VARIABLES
    t_input,    \* parse_args: the argument text being tokenized
    t_pos,      \* parse_args: number of characters of t_input consumed
    t_st,       \* parse_args: quote, escaped, current_str, out_str
    t_pc,       \* parse_args: "loop" | "done" | "panic" | "idle"
    t_result,   \* parse_args: the returned vector once t_pc = "done"
    pc,         \* Shell::run: "prompt" | "read" | "exited" | "aborted" | "idle"
    cwd,        \* the process's working directory, as its components
    home,       \* the HOME environment variable, None when unset
    path_dirs,  \* Shell.path_dirs
    files,      \* the regular files of the file system and their modes
    line,       \* the line read by the last read_line
    cmd,        \* the Command parsed from it
    result,     \* what its run returned
    chdir_arg,  \* the path the last Cd handed to set_current_dir
    spawned,    \* the child process the last External started
    stdout,     \* what was written to standard output since the last prompt
    stderr,     \* what was written to standard error since the last prompt
    last_cd,    \* history: the directory the most recent successful Cd named
    eof,        \* standard input is at its end: read_line returns nothing
    exit_status,\* the status the process exited with, None while it runs
    r_name,     \* try_find_executable: the name looked up
    r_found,    \* try_find_executable: what it returned
    r_pc        \* try_find_executable: "call" | "done" | "idle"

tvars == <<t_input, t_pos, t_st, t_pc, t_result>>
svars == <<pc, cwd, home, path_dirs, files, line, cmd, result, chdir_arg,
           spawned, stdout, stderr, last_cd, eof, exit_status>>
rvars == <<r_name, r_found, r_pc>>
vars  == <<tvars, svars, rvars>>

----------------------------------------------------------------------------
(* Bounds of the model                                                     *)

MaxLen == 4

----------------------------------------------------------------------------
(* Characters                                                              *)

BS  == "\\"
SQ  == "'"
DQ  == "\""
SP  == " "
TAB == "\t"

\* The characters argument text is drawn from.
TokAlphabet == {BS, SQ, DQ, SP, TAB, "a"}

SeqsUpTo(S, n) == UNION {[1..k -> S] : k \in 0..n}

TokInputs == SeqsUpTo(TokAlphabet, MaxLen)

----------------------------------------------------------------------------
(* The tokenizer: step and parse_args                                      *)

\* char::is_whitespace, on the characters of the model
is_whitespace(c) == c \in {SP, TAB, "\n"}

Push(ch)      == [kind |-> "Push", ch |-> ch]
FlushAct      == [kind |-> "Flush"]
SetQuote(q)   == [kind |-> "SetQuote", q |-> q]
StartEscape   == [kind |-> "StartEscape"]
ConsumeAct(ch) == [kind |-> "Consume", ch |-> ch]

\* A faulty variant: a backslash inside single quotes starts an escape
step_SingleEscapes(quote, escaped, c) ==
    IF escaped THEN ConsumeAct(c)
    ELSE CASE quote = "None" ->
                (CASE c = BS -> StartEscape
                   [] c = SQ -> SetQuote("Single")
                   [] c = DQ -> SetQuote("Double")
                   [] is_whitespace(c) -> FlushAct
                   [] OTHER -> Push(c))
           [] quote = "Single" ->
                (CASE c = SQ -> SetQuote("None")
                   [] c = BS -> StartEscape
                   [] OTHER -> Push(c))
           [] quote = "Double" ->
                (CASE c = DQ -> SetQuote("None")
                   [] c = BS -> StartEscape
                   [] OTHER -> Push(c))

\* A faulty variant: a single quote after a backslash still opens or closes
step_QuoteWhileEscaped(quote, escaped, c) ==
    IF escaped /\ c # SQ THEN ConsumeAct(c)
    ELSE CASE quote = "None" ->
                (CASE c = BS -> StartEscape
                   [] c = SQ -> SetQuote("Single")
                   [] c = DQ -> SetQuote("Double")
                   [] is_whitespace(c) -> FlushAct
                   [] OTHER -> Push(c))
           [] quote = "Single" ->
                (CASE c = SQ -> SetQuote("None")
                   [] OTHER -> Push(c))
           [] quote = "Double" ->
                (CASE c = DQ -> SetQuote("None")
                   [] c = BS -> StartEscape
                   [] OTHER -> Push(c))

step(quote, escaped, c) ==
    IF escaped THEN ConsumeAct(c)
    ELSE CASE quote = "None" ->
                (CASE c = BS -> StartEscape
                   [] c = SQ -> SetQuote("Single")
                   [] c = DQ -> SetQuote("Double")
                   [] is_whitespace(c) -> FlushAct
                   [] OTHER -> Push(c))
           [] quote = "Single" ->
                (CASE c = SQ -> SetQuote("None")
                   [] OTHER -> Push(c))
           [] quote = "Double" ->
                (CASE c = DQ -> SetQuote("None")
                   [] c = BS -> StartEscape
                   [] OTHER -> Push(c))

\* The locals of parse_args at its start.
TokStart == [quote |-> "None", escaped |-> FALSE,
             current_str |-> <<>>, out_str |-> <<>>, panicked |-> FALSE]

\* A faulty variant: the flush pushes the accumulator even when it is empty
Flush_NoEmptyCheck(st) ==
    [st EXCEPT !.out_str = Append(@, st.current_str), !.current_str = <<>>]

\* A faulty variant: the flush pushes a copy and leaves the accumulator as it is
Flush_NoTake(st) ==
    IF st.current_str # <<>>
    THEN [st EXCEPT !.out_str = Append(@, st.current_str)]
    ELSE st

\* Action::Flush
Flush(st) ==
    IF st.current_str # <<>>
    THEN [st EXCEPT !.out_str = Append(@, st.current_str), !.current_str = <<>>]
    ELSE st

\* A faulty variant: inside double quotes the backslash escapes every character
Consume_EscapesAll(st, ch) ==
    CASE st.quote = "None" ->
            [st EXCEPT !.current_str = Append(@, ch), !.escaped = FALSE]
      [] st.quote = "Single" -> [st EXCEPT !.panicked = TRUE]
      [] st.quote = "Double" ->
            [st EXCEPT !.current_str = Append(@, ch), !.escaped = FALSE]

\* A faulty variant: outside quotes the backslash is kept in front of the character
Consume_KeepsBackslash(st, ch) ==
    CASE st.quote = "None" ->
            [st EXCEPT !.current_str = @ \o <<BS, ch>>, !.escaped = FALSE]
      [] st.quote = "Single" -> [st EXCEPT !.panicked = TRUE]
      [] st.quote = "Double" ->
            IF ch \in {DQ, BS}
            THEN [st EXCEPT !.current_str = Append(@, ch), !.escaped = FALSE]
            ELSE [st EXCEPT !.current_str = @ \o <<BS, ch>>, !.escaped = FALSE]

\* Action::Consume; unreachable!() panics
Consume(st, ch) ==
    CASE st.quote = "None" ->
            [st EXCEPT !.current_str = Append(@, ch), !.escaped = FALSE]
      [] st.quote = "Single" -> [st EXCEPT !.panicked = TRUE]
      [] st.quote = "Double" ->
            IF ch \in {DQ, BS}
            THEN [st EXCEPT !.current_str = Append(@, ch), !.escaped = FALSE]
            ELSE [st EXCEPT !.current_str = @ \o <<BS, ch>>, !.escaped = FALSE]

\* One iteration of the for loop of parse_args.
LoopBody(st, c) ==
    LET a == step(st.quote, st.escaped, c) IN
    CASE a.kind = "Push"        -> [st EXCEPT !.current_str = Append(@, a.ch)]
      [] a.kind = "Flush"       -> Flush(st)
      [] a.kind = "SetQuote"    -> [st EXCEPT !.quote = a.q]
      [] a.kind = "StartEscape" -> [st EXCEPT !.escaped = TRUE]
      [] a.kind = "Consume"     -> Consume(st, a.ch)

\* A faulty variant: a trailing backslash is dropped at the end of the input
EndOfInput_DropsBackslash(st) ==
    IF st.current_str # <<>> THEN Append(st.out_str, st.current_str)
    ELSE st.out_str

\* The code after the loop: the value parse_args returns.
EndOfInput(st) ==
    LET cur == IF st.escaped THEN Append(st.current_str, BS)
               ELSE st.current_str
    IN  IF cur # <<>> THEN Append(st.out_str, cur) ELSE st.out_str

RECURSIVE RunLoop(_, _, _)
RunLoop(st, input, i) ==
    IF i > Len(input) \/ st.panicked THEN st
    ELSE RunLoop(LoopBody(st, input[i]), input, i + 1)

\* parse_args as a function of its input (a run that panics returns nothing;
\* it is given the marker <<"panic">>, which no run of the loop below reaches
\* unless the unreachable!() branch is executed).
parse_args(input) ==
    LET st == RunLoop(TokStart, input, 1) IN
    IF st.panicked THEN <<"panic">> ELSE EndOfInput(st)

\* [String]::join
RECURSIVE join(_, _)
join(strs, sep) ==
    IF strs = <<>> THEN <<>>
    ELSE IF Len(strs) = 1 THEN strs[1]
    ELSE strs[1] \o sep \o join(Tail(strs), sep)


----------------------------------------------------------------------------
(* Strings of the program                                                  *)

\* Option: None and Some(v)
None == [some |-> FALSE]
Some(v) == [some |-> TRUE, v |-> v]

S_exit == <<"e", "x", "i", "t">>
S_echo == <<"e", "c", "h", "o">>
S_type == <<"t", "y", "p", "e">>
S_pwd  == <<"p", "w", "d">>
S_cd   == <<"c", "d">>

PromptStr       == <<"$", " ">>
S_IoError       == <<"I", "/", "O", " ", "e", "r", "r", "o", "r", ":", " ">>
S_CmdNotFound   == <<":", " ", "c", "o", "m", "m", "a", "n", "d", " ",
                     "n", "o", "t", " ", "f", "o", "u", "n", "d">>
S_NotFound      == <<":", " ", "n", "o", "t", " ", "f", "o", "u", "n", "d">>
S_IsBuiltin     == <<" ", "i", "s", " ", "a", " ", "s", "h", "e", "l", "l", " ",
                     "b", "u", "i", "l", "t", "i", "n">>
S_Is            == <<" ", "i", "s", " ">>
S_CdPrefix      == <<"c", "d", ":", " ">>
S_NoSuchFile    == <<":", " ", "N", "o", " ", "s", "u", "c", "h", " ",
                     "f", "i", "l", "e", " ", "o", "r", " ",
                     "d", "i", "r", "e", "c", "t", "o", "r", "y">>
NL == "\n"

\* println!: the text and a newline
Println(text) == Append(text, NL)

----------------------------------------------------------------------------
(* ShellError and its Display                                              *)

Ok == [tag |-> "Ok"]
Err(kind, arg) == [tag |-> "Err", kind |-> kind, arg |-> arg]

fmt(err) ==
    CASE err.kind = "Io"              -> S_IoError \o err.arg
      [] err.kind = "ShellMessage"    -> err.arg
      [] err.kind = "CommandNotFound" -> err.arg \o S_CmdNotFound
      [] err.kind = "NotFound"        -> err.arg \o S_NotFound

----------------------------------------------------------------------------
(* Paths and the file system                                               *)

IsAbsolute(p) == p # <<>> /\ p[1] = "/"

\* The components of a path: the text between its separators.
RECURSIVE ComponentsFrom(_, _, _, _)
ComponentsFrom(p, i, cur, acc) ==
    IF i > Len(p)
    THEN (IF cur = <<>> THEN acc ELSE Append(acc, cur))
    ELSE IF p[i] = "/"
         THEN ComponentsFrom(p, i + 1, <<>>,
                             IF cur = <<>> THEN acc ELSE Append(acc, cur))
         ELSE ComponentsFrom(p, i + 1, Append(cur, p[i]), acc)

Components(p) == ComponentsFrom(p, 1, <<>>, <<>>)

\* A faulty variant: joining the empty path leaves the base as it is
PathJoin_EmptyKeepsBase(base, p) ==
    IF p = <<>> THEN base
    ELSE IF IsAbsolute(p) THEN p
    ELSE IF base # <<>> /\ base[Len(base)] # "/" THEN base \o <<"/">> \o p
    ELSE base \o p

\* PathBuf::join: an absolute argument replaces the base
PathJoin(base, p) ==
    IF IsAbsolute(p) THEN p
    ELSE IF base # <<>> /\ base[Len(base)] # "/" THEN base \o <<"/">> \o p
    ELSE base \o p

\* Path::display of a directory given by its components
DisplayDir(comps) == <<"/">> \o join(comps, <<"/">>)

C_h == <<"h">>
C_d == <<"d">>
C_x == <<"x">>

\* The directories of the file system.
Dirs == { <<>>, <<C_h>>, <<C_h, C_d>>, <<C_d>> }

StartDir == <<>>
HomeValue == <<"/", "h">>

\* The places a regular file may be at: /d/x, /h/d/x, /d/d and /d/cd.
FilePlaces == { <<C_d, C_x>>, <<C_h, C_d, C_x>>, <<C_d, C_d>>,
                <<C_d, <<"c", "d">> >> }

\* Permission bits
Mode001 == {"ox"}
Mode644 == {"ur", "uw", "gr", "or"}
Mode755 == {"ur", "uw", "ux", "gr", "gx", "or", "ox"}
ExecBits == {"ux", "gx", "ox"}

\* What a path names, from the directory `at`: its components.
Resolve(at, p) == (IF IsAbsolute(p) THEN <<>> ELSE at) \o Components(p)

\* fs::metadata: None for Err
Metadata(at, p, fs) ==
    LET t == Resolve(at, p) IN
    IF p = <<>> THEN None
    ELSE IF t \in Dirs THEN Some([is_file |-> FALSE, mode |-> Mode755])
    ELSE IF t \in DOMAIN fs /\ fs[t].exists /\ p[Len(p)] # "/"
         THEN Some([is_file |-> TRUE, mode |-> fs[t].mode])
    ELSE None

\* A faulty variant: only the owner's execute bit counts
is_executable_OwnerOnly(metadata) == "ux" \in metadata.mode

is_executable(metadata) == metadata.mode \cap ExecBits # {}

\* Shell::try_find_executable
RECURSIVE FindFrom(_, _, _, _, _)
FindFrom(dirs, i, name, at, fs) ==
    IF i > Len(dirs) THEN None
    ELSE LET candidate_path == PathJoin(dirs[i], name)
             metadata == Metadata(at, candidate_path, fs)
         IN  IF metadata.some /\ metadata.v.is_file /\ is_executable(metadata.v)
             THEN Some(candidate_path)
             ELSE FindFrom(dirs, i + 1, name, at, fs)

try_find_executable(dirs, name, at, fs) == FindFrom(dirs, 1, name, at, fs)

\* execve of the file p names: it runs only a regular file its user may
\* execute (the files of the model belong to the user of the shell).
execve(at, p, fs) ==
    LET m == Metadata(at, p, fs) IN
    IF m.some /\ m.v.is_file /\ "ux" \in m.v.mode
    THEN Some(Resolve(at, p))
    ELSE None

RECURSIVE ExecFrom(_, _, _, _, _)
ExecFrom(dirs, i, name, at, fs) ==
    IF i > Len(dirs) THEN None
    ELSE IF execve(at, PathJoin(dirs[i], name), fs).some
         THEN execve(at, PathJoin(dirs[i], name), fs)
         ELSE ExecFrom(dirs, i + 1, name, at, fs)

\* The file std::process::Command::new(name) runs, None when the spawn
\* fails: execvp takes a name with a slash as the path of the file, and looks
\* for any other name in the directories of PATH, which the child inherits.
execvp(name, dirs, at, fs) ==
    IF name = <<>> THEN None
    ELSE IF \E i \in 1..Len(name) : name[i] = "/" THEN execve(at, name, fs)
    ELSE ExecFrom(dirs, 1, name, at, fs)

----------------------------------------------------------------------------
(* Command::parse                                                          *)

\* str::trim_end
RECURSIVE trim_end(_)
trim_end(s) ==
    IF s # <<>> /\ is_whitespace(s[Len(s)])
    THEN trim_end(SubSeq(s, 1, Len(s) - 1))
    ELSE s

\* str::split_once(' ').unwrap_or((input, ""))
RECURSIVE SplitFrom(_, _)
SplitFrom(s, i) ==
    IF i > Len(s) THEN [name |-> s, args |-> <<>>]
    ELSE IF s[i] = SP
         THEN [name |-> SubSeq(s, 1, i - 1), args |-> SubSeq(s, i + 1, Len(s))]
         ELSE SplitFrom(s, i + 1)

split_once(s) == SplitFrom(s, 1)

\* A faulty variant: the table lacks the two builtins added last
Builtins_WithoutPwdCd == <<S_exit, S_echo, S_type>>

Builtins == <<S_exit, S_echo, S_type, S_pwd, S_cd>>

\* A faulty variant: echo is given the remainder as it was typed
parse_EchoUntokenized(input) ==
    LET sp == split_once(input)
        parsed_args == parse_args(sp.args)
    IN  CASE sp.name = S_exit -> [tag |-> "Exit"]
          [] sp.name = S_echo -> [tag |-> "Echo", args |-> sp.args]
          [] sp.name = S_type -> [tag |-> "Type", arg |-> join(parsed_args, <<SP>>)]
          [] sp.name = S_pwd  -> [tag |-> "Pwd"]
          [] sp.name = S_cd   -> [tag |-> "Cd", path |-> join(parsed_args, <<SP>>)]
          [] OTHER -> [tag |-> "External", name |-> sp.name, args |-> parsed_args]

parse(input) ==
    LET sp == split_once(input)
        parsed_args == parse_args(sp.args)
    IN  CASE sp.name = S_exit -> [tag |-> "Exit"]
          [] sp.name = S_echo -> [tag |-> "Echo", args |-> join(parsed_args, <<SP>>)]
          [] sp.name = S_type -> [tag |-> "Type", arg |-> join(parsed_args, <<SP>>)]
          [] sp.name = S_pwd  -> [tag |-> "Pwd"]
          [] sp.name = S_cd   -> [tag |-> "Cd", path |-> join(parsed_args, <<SP>>)]
          [] OTHER -> [tag |-> "External", name |-> sp.name, args |-> parsed_args]

----------------------------------------------------------------------------
(* The commands                                                            *)

\* EchoCmd::run
EchoRun(args) == [res |-> Ok, out |-> <<Println(args)>>]

\* A faulty variant: the search path is looked at before the builtin table
TypeRun_PathFirst(arg, dirs, at, fs) ==
    LET executable_path == try_find_executable(dirs, arg, at, fs) IN
    IF executable_path.some
    THEN [res |-> Ok, out |-> <<Println(arg \o S_Is \o executable_path.v)>>,
          looked |-> TRUE]
    ELSE IF \E i \in 1..Len(Builtins) : Builtins[i] = arg
         THEN [res |-> Ok, out |-> <<Println(arg \o S_IsBuiltin)>>,
               looked |-> TRUE]
         ELSE [res |-> Err("NotFound", arg), out |-> <<>>, looked |-> TRUE]

\* TypeCmd::run; looked tells whether try_find_executable was called
TypeRun(arg, dirs, at, fs) ==
    IF \E i \in 1..Len(Builtins) : Builtins[i] = arg
    THEN [res |-> Ok, out |-> <<Println(arg \o S_IsBuiltin)>>,
          looked |-> FALSE]
    ELSE LET executable_path == try_find_executable(dirs, arg, at, fs) IN
         IF executable_path.some
         THEN [res |-> Ok,
               out |-> <<Println(arg \o S_Is \o executable_path.v)>>,
               looked |-> TRUE]
         ELSE [res |-> Err("NotFound", arg), out |-> <<>>, looked |-> TRUE]

\* PwdCmd::run
PwdRun(at) == [res |-> Ok, out |-> <<Println(DisplayDir(at))>>]

\* str::strip_prefix("~")
strip_tilde(path) ==
    IF path # <<>> /\ path[1] = "~" THEN Some(Tail(path)) ELSE None

\* CdCmd::run: the path handed to set_current_dir
cd_actual_path(path, hm) ==
    IF strip_tilde(path).some
    THEN PathJoin(hm.v, strip_tilde(path).v)
    ELSE path

\* env::set_current_dir: the new working directory, None for Err
set_current_dir(at, p) ==
    IF p # <<>> /\ Resolve(at, p) \in Dirs THEN Some(Resolve(at, p)) ELSE None

\* A faulty variant: the message of a failed cd shows the substituted path
cd_error_ShowsActual(path, actual_path) ==
    Err("ShellMessage", S_CdPrefix \o actual_path \o S_NoSuchFile)

\* CdCmd::run: the error of a failed set_current_dir
cd_error(path, actual_path) ==
    Err("ShellMessage", S_CdPrefix \o path \o S_NoSuchFile)

\* A faulty variant: a failed cd leaves the shell in the root directory
CdRun_FailureMovesToRoot(path, at, hm) ==
    LET actual_path == cd_actual_path(path, hm)
        to == set_current_dir(at, actual_path)
    IN  IF ~to.some
        THEN [res |-> cd_error(path, actual_path), cwd |-> <<>>,
              actual |-> actual_path]
        ELSE [res |-> Ok, cwd |-> to.v, actual |-> actual_path]

\* CdCmd::run, when HOME is set or not needed
CdRun(path, at, hm) ==
    LET actual_path == cd_actual_path(path, hm)
        to == set_current_dir(at, actual_path)
    IN  IF ~to.some
        THEN [res |-> cd_error(path, actual_path), cwd |-> at,
              actual |-> actual_path]
        ELSE [res |-> Ok, cwd |-> to.v, actual |-> actual_path]

\* Shell::run: what the loop prints for the result of a command
Report(res) ==
    IF res.tag = "Ok" THEN [out |-> <<>>, err |-> <<>>]
    ELSE IF res.kind \in {"CommandNotFound", "NotFound"}
         THEN [out |-> <<Println(fmt(res))>>, err |-> <<>>]
         ELSE [out |-> <<>>, err |-> <<Println(fmt(res))>>]

----------------------------------------------------------------------------
(* Inputs                                                                  *)

MaxArgLen == 3

ArgAlphabet == {"~", "/", "h", "d"}

ExtraArgs ==
    { C_x, S_cd, S_echo, S_exit, S_type, S_pwd,
      <<"d", SP, SP, "d">>, <<SQ, "h", SP, "d", SQ>>, <<"h", SP>>,
      <<DQ, "/", "h", DQ>>, <<"~", BS>> }

Names == {S_exit, S_echo, S_type, S_pwd, S_cd, C_x}

Rests == SeqsUpTo(ArgAlphabet, MaxArgLen) \cup ExtraArgs

\* Lines with a tab after the name, with a name in capitals, with a name that
\* is a relative path, and lines of blanks or beginning with a blank.
OtherLines ==
    { S_echo \o <<TAB, "d">>, S_exit \o <<TAB, "d">>, S_pwd \o <<TAB, "d">>,
      S_cd \o <<TAB, "/", "h">>, S_type \o <<TAB>> \o S_cd,
      <<"E", "c", "h", "o", SP, "d">>, <<"E", "X", "I", "T">>,
      <<"d", "/", "x">>, <<"d", "/", "x", SP, "h", SP, SP, "d">>,
      <<"x", SP, SQ, "h", SP, "d", SQ, SP, "d">>,
      <<SP>>, <<SP, SP>>, <<TAB>>, <<SP, "x">>, <<SP>> \o S_echo \o <<SP, "d">>,
      <<SP>> \o S_exit,
      S_echo \o <<SP, "d", TAB, "d">>, S_echo \o <<SP, SP, "d", SP>>,
      S_echo \o <<SP, DQ, "h", SP>>,
      S_echo \o <<SP, SQ, "h", SP, SP, "d", SQ, SP, SP, "d">> }

\* The lines read_line may return (without the newline trim_end removes).
Lines ==
    {<<>>} \cup Names \cup {n \o <<SP>> \o r : n \in Names, r \in Rests}
           \cup OtherLines

\* PATH unset, PATH=/d:/h/d and PATH=/h
PathConfigs == { <<>>, << <<"/", "d">>, <<"/", "h", "/", "d">> >>,
                 << <<"/", "h">> >> }

NoFile == [exists |-> FALSE, mode |-> {}]
File(mode) == [exists |-> TRUE, mode |-> mode]

FileConfigs ==
    { [p \in FilePlaces |-> NoFile],
      [p \in FilePlaces |-> IF p = <<C_d, C_x>> THEN File(Mode644)
                                                ELSE File(Mode755)],
      [p \in FilePlaces |-> File(Mode755)] }

\* What a child process may have written to its standard output.
ChildOutputs == { <<>>, <<"o", NL>> }

S_SpawnFailed == <<"s", "p", "a", "w", "n">>

----------------------------------------------------------------------------
(* Shell::run                                                              *)

TokIdle ==
    /\ t_input = <<>>
    /\ t_pos = 0
    /\ t_st = TokStart
    /\ t_pc = "idle"
    /\ t_result = <<>>

ShellIdle ==
    /\ pc = "idle"
    /\ cwd = StartDir
    /\ home = None
    /\ path_dirs = <<>>
    /\ files = [p \in FilePlaces |-> NoFile]
    /\ line = <<>>
    /\ cmd = [tag |-> "None"]
    /\ result = Ok
    /\ chdir_arg = None
    /\ spawned = None
    /\ stdout = <<>>
    /\ stderr = <<>>
    /\ last_cd = None
    /\ eof = FALSE
    /\ exit_status = None

ResolveIdle ==
    /\ r_name = <<>>
    /\ r_found = None
    /\ r_pc = "idle"

Init ==
    /\ TokIdle
    /\ ResolveIdle
    /\ pc = "prompt"
    /\ cwd = StartDir
    /\ home \in {None, Some(HomeValue)}
    /\ path_dirs \in PathConfigs
    /\ files \in FileConfigs
    /\ line = <<>>
    /\ cmd = [tag |-> "None"]
    /\ result = Ok
    /\ chdir_arg = None
    /\ spawned = None
    /\ stdout = <<>>
    /\ stderr = <<>>
    /\ last_cd = None
    /\ eof = FALSE
    /\ exit_status = None

\* The top of the loop: print!("$ ") and flush. The locals of the previous
\* iteration are gone.
Prompt ==
    /\ pc = "prompt"
    /\ pc' = "read"
    /\ stdout' = <<PromptStr>>
    /\ stderr' = <<>>
    /\ line' = <<>>
    /\ cmd' = [tag |-> "None"]
    /\ result' = Ok
    /\ chdir_arg' = None
    /\ spawned' = None
    /\ r_name' = <<>>
    /\ r_found' = None
    /\ r_pc' = "idle"
    /\ UNCHANGED <<cwd, home, path_dirs, files, last_cd, eof, exit_status,
                   tvars>>

\* Every line with the command Command::parse makes of it.
ParsedLines == {[line |-> l, cmd |-> parse(trim_end(l))] : l \in Lines}

\* read_line, trim_end and Command::parse, for a loop blocked in read_line.
\* At the end of standard input read_line returns Ok(0) and leaves buf empty.
Reads(pl, tag) ==
    /\ pl.cmd.tag = tag
    /\ eof => pl.line = <<>>
    /\ eof' \in (IF pl.line = <<>> THEN {eof, TRUE} ELSE {eof})
    /\ line' = pl.line
    /\ cmd' = pl.cmd
    /\ UNCHANGED <<home, path_dirs, files, tvars>>

\* A call of try_find_executable by the command of this iteration.
Lookup(name) ==
    /\ r_name' = name
    /\ r_found' = try_find_executable(path_dirs, name, cwd, files)
    /\ r_pc' = "done"

\* A faulty variant: an error that is not a NotFound ends the loop
Returns_ErrorEndsSession(res, out) ==
    /\ result' = res
    /\ stdout' = stdout \o out \o Report(res).out
    /\ stderr' = stderr \o Report(res).err
    /\ pc' = IF Report(res).err # <<>> THEN "aborted" ELSE "prompt"
    /\ UNCHANGED exit_status

\* The end of an iteration whose command returned res, having printed out.
Returns(res, out) ==
    /\ result' = res
    /\ stdout' = stdout \o out \o Report(res).out
    /\ stderr' = stderr \o Report(res).err
    /\ pc' = "prompt"
    /\ UNCHANGED exit_status

DoExit ==
    /\ pc = "read"
    /\ \E pl \in ParsedLines :
        /\ Reads(pl, "Exit")
        \* process::exit(0)
        /\ pc' = "exited"
        /\ exit_status' = Some(0)
        /\ UNCHANGED <<cwd, result, chdir_arg, spawned, stdout, stderr, last_cd,
                       rvars>>

DoEcho ==
    /\ pc = "read"
    /\ \E pl \in ParsedLines :
        /\ Reads(pl, "Echo")
        /\ LET r == EchoRun(cmd'.args) IN Returns(r.res, r.out)
        /\ UNCHANGED <<cwd, chdir_arg, spawned, last_cd, rvars>>

DoType ==
    /\ pc = "read"
    /\ \E pl \in ParsedLines :
        /\ Reads(pl, "Type")
        /\ LET r == TypeRun(cmd'.arg, path_dirs, cwd, files) IN
               /\ Returns(r.res, r.out)
               /\ IF r.looked THEN Lookup(cmd'.arg) ELSE UNCHANGED rvars
        /\ UNCHANGED <<cwd, chdir_arg, spawned, last_cd>>

DoPwd ==
    /\ pc = "read"
    /\ \E pl \in ParsedLines :
        /\ Reads(pl, "Pwd")
        /\ LET r == PwdRun(cwd) IN Returns(r.res, r.out)
        /\ UNCHANGED <<cwd, chdir_arg, spawned, last_cd, rvars>>

\* CdCmd::run
DoCd ==
    /\ pc = "read"
    /\ \E pl \in ParsedLines :
        /\ Reads(pl, "Cd")
        /\ \/ /\ strip_tilde(cmd'.path).some
              /\ ~home.some
              \* expect("home should not be empty") panics
              /\ pc' = "aborted"
              /\ UNCHANGED <<cwd, result, chdir_arg, stdout, stderr, last_cd,
                             exit_status>>
           \/ /\ ~(strip_tilde(cmd'.path).some /\ ~home.some)
              /\ LET r == CdRun(cmd'.path, cwd, home) IN
                    /\ cwd' = r.cwd
                    /\ chdir_arg' = Some(r.actual)
                    /\ last_cd' = IF r.res.tag = "Ok"
                                  THEN Some(Resolve(cwd, r.actual))
                                  ELSE last_cd
                    /\ Returns(r.res, <<>>)
        /\ UNCHANGED <<spawned, rvars>>

\* ExternalCmd::run, up to the spawn of the child: output() blocks until the
\* child has exited.
DoExternal ==
    /\ pc = "read"
    /\ \E pl \in ParsedLines :
        /\ Reads(pl, "External")
        /\ Lookup(cmd'.name)
        /\ LET found == r_found'
               target == execvp(cmd'.name, path_dirs, cwd, files)
           IN  IF ~found.some
               THEN /\ Returns(Err("NotFound", cmd'.name), <<>>)
                    /\ UNCHANGED spawned
               ELSE IF ~target.some
               THEN /\ Returns(Err("Io", S_SpawnFailed), <<>>)
                    /\ UNCHANGED spawned
               ELSE /\ spawned' = Some([program |-> cmd'.name,
                                        args |-> cmd'.args,
                                        file |-> target.v])
                    /\ pc' = "wait"
                    /\ UNCHANGED <<result, stdout, stderr, exit_status>>
        /\ UNCHANGED <<cwd, chdir_arg, last_cd>>

\* The child exits: output() returns what it wrote to its standard output and
\* write_all copies it, or one of the two fails.
ChildExit ==
    /\ pc = "wait"
    /\ \/ \E o \in ChildOutputs : Returns(Ok, <<o>>)
       \/ Returns(Err("Io", S_SpawnFailed), <<>>)
    /\ UNCHANGED <<cwd, home, path_dirs, files, line, cmd, chdir_arg, spawned,
                   last_cd, eof, tvars, rvars>>

\* read_line returns an error (a line that is not UTF-8): unwrap panics
ReadFails ==
    /\ pc = "read"
    /\ ~eof
    /\ pc' = "aborted"
    /\ UNCHANGED <<cwd, home, path_dirs, files, line, cmd, result, chdir_arg,
                   spawned, stdout, stderr, last_cd, eof, exit_status,
                   tvars, rvars>>

Next ==
    \/ Prompt
    \/ ReadFails
    \/ DoExit \/ DoEcho \/ DoType \/ DoPwd \/ DoCd
    \/ DoExternal
    \/ ChildExit

Spec == Init /\ [][Next]_vars

\* The loop does not stop between the end of a command and the next prompt.
FairSpec == Spec /\ WF_vars(Prompt)

----------------------------------------------------------------------------
(* try_find_executable, called on its own                                  *)

MaxDirs == 2

\* The entries PATH may hold: /d, /h/d, /h, the regular file /d/x and the
\* empty entry.
ResolveDirs == { <<"/", "d">>, <<"/", "h", "/", "d">>, <<"/", "h">>,
                 <<"/", "d", "/", "x">>, <<>> }

ResolveNames == { C_x, C_d, <<>> }

ResolveModes == { NoFile, File(Mode001), File(Mode644), File(Mode755) }

ResolveFiles ==
    { f \in [FilePlaces -> ResolveModes] : ~f[<<C_d, S_cd>>].exists }

ResolveInit ==
    /\ TokIdle
    /\ pc = "idle"
    /\ cwd \in {StartDir, <<C_d>>}
    /\ home = None
    /\ path_dirs \in SeqsUpTo(ResolveDirs, MaxDirs)
    /\ files \in ResolveFiles
    /\ line = <<>>
    /\ cmd = [tag |-> "None"]
    /\ result = Ok
    /\ chdir_arg = None
    /\ spawned = None
    /\ stdout = <<>>
    /\ stderr = <<>>
    /\ last_cd = None
    /\ eof = FALSE
    /\ exit_status = None
    /\ r_name \in ResolveNames
    /\ r_found = None
    /\ r_pc = "call"

ResolveCall ==
    /\ r_pc = "call"
    /\ r_found' = try_find_executable(path_dirs, r_name, cwd, files)
    /\ r_pc' = "done"
    /\ UNCHANGED <<r_name, tvars, svars>>

ResolveNext == ResolveCall

SpecResolve == ResolveInit /\ [][ResolveNext]_vars

----------------------------------------------------------------------------
(* parse_args, one loop iteration at a time                                *)

TokInit ==
    /\ ShellIdle
    /\ ResolveIdle
    /\ t_input \in TokInputs
    /\ t_pos = 0
    /\ t_st = TokStart
    /\ t_pc = "loop"
    /\ t_result = <<>>

TokStep ==
    /\ t_pc = "loop"
    /\ t_pos < Len(t_input)
    /\ LET st == LoopBody(t_st, t_input[t_pos + 1]) IN
         /\ t_st' = st
         /\ t_pc' = IF st.panicked THEN "panic" ELSE "loop"
    /\ t_pos' = t_pos + 1
    /\ UNCHANGED <<t_input, t_result, svars, rvars>>

TokEnd ==
    /\ t_pc = "loop"
    /\ t_pos = Len(t_input)
    /\ t_result' = EndOfInput(t_st)
    /\ t_pc' = "done"
    /\ UNCHANGED <<t_input, t_pos, t_st, svars, rvars>>

TokNext == TokStep \/ TokEnd

SpecTok == TokInit /\ [][TokNext]_vars

----------------------------------------------------------------------------
(* Properties of the tokenizer, checked under SpecTok                      *)

\* A step of the loop of parse_args on the character c.
LoopStepOn(c) ==
    /\ t_pc = "loop"
    /\ t_pos' = t_pos + 1
    /\ t_input[t_pos'] = c

\* C1: inside double quotes a backslash followed by c adds exactly c to the
\* current token when c is a double quote or a backslash, and adds the
\* backslash and c for any other c; the backslash itself adds nothing when
\* it is seen, and c neither closes the quote nor ends the token.
C1_DoubleQuoteBackslash ==
    [][\A c \in TokAlphabet :
        (LoopStepOn(c) /\ t_st.quote = "Double") =>
            IF t_st.escaped
            THEN /\ t_input[t_pos] = BS
                 /\ t_st'.current_str =
                        t_st.current_str \o
                            (IF c \in {DQ, BS} THEN <<c>> ELSE <<BS, c>>)
                 /\ t_st'.quote = "Double"
                 /\ t_st'.out_str = t_st.out_str
                 /\ ~t_st'.escaped
                 /\ t_pc' = "loop"
            ELSE c = BS =>
                 /\ t_st'.escaped
                 /\ t_st'.current_str = t_st.current_str
                 /\ t_st'.quote = "Double"
                 /\ t_st'.out_str = t_st.out_str]_vars

\* "\"a is tokenized to the one token "a: the escaped quote did not close
\* the quote.
C1_Witness ==
    /\ t_pc = "done"
    /\ t_input = <<DQ, BS, DQ, "a">>
    /\ t_st.quote = "Double"
    /\ t_result = << <<DQ, "a">> >>

\* C2: between an opening single quote and the next single quote every
\* character is appended to the current token unchanged, and no character
\* seen in the SingleQuoted state sets the escape flag.
C2_SingleQuoteLiteral ==
    [][\A c \in TokAlphabet :
        (LoopStepOn(c) /\ t_st.quote = "Single") =>
            /\ ~t_st'.escaped
            /\ t_st'.out_str = t_st.out_str
            /\ t_pc' = "loop"
            /\ IF c = SQ
               THEN /\ t_st'.quote = "None"
                    /\ t_st'.current_str = t_st.current_str
               ELSE /\ t_st'.quote = "Single"
                    /\ t_st'.current_str = Append(t_st.current_str, c)]_vars

\* '\" followed by a space, inside an open single quote: all three
\* characters are in the current token.
C2_Witness ==
    /\ t_pc = "loop"
    /\ t_input = <<SQ, BS, DQ, SP>>
    /\ t_pos = 4
    /\ t_st.quote = "Single"
    /\ ~t_st.escaped
    /\ t_st.current_str = <<BS, DQ, SP>>

\* C3: outside quotes a backslash is not emitted and makes the next character
\* literal: that character is appended to the current token, and it does not
\* end the token, open a quote or start another escape.
C3_UnquotedBackslash ==
    [][\A c \in TokAlphabet :
        (LoopStepOn(c) /\ t_st.quote = "None") =>
            IF t_st.escaped
            THEN /\ t_input[t_pos] = BS
                 /\ t_st'.current_str = Append(t_st.current_str, c)
                 /\ t_st'.out_str = t_st.out_str
                 /\ t_st'.quote = "None"
                 /\ ~t_st'.escaped
                 /\ t_pc' = "loop"
            ELSE c = BS =>
                 /\ t_st'.escaped
                 /\ t_st'.current_str = t_st.current_str
                 /\ t_st'.out_str = t_st.out_str
                 /\ t_st'.quote = "None"]_vars

\* a\ a (an escaped space) is the one token "a a".
C3_Witness ==
    /\ t_pc = "done"
    /\ t_input = <<"a", BS, SP, "a">>
    /\ t_result = << <<"a", SP, "a">> >>

\* The input is made of whitespace and of empty quotes ('' or "") only.
RECURSIVE OnlyEmptyQuotes(_)
OnlyEmptyQuotes(s) ==
    \/ s = <<>>
    \/ /\ is_whitespace(s[1])
       /\ OnlyEmptyQuotes(Tail(s))
    \/ /\ Len(s) >= 2
       /\ s[1] \in {SQ, DQ}
       /\ s[2] = s[1]
       /\ OnlyEmptyQuotes(Tail(Tail(s)))

\* C4: no token that parse_args has pushed or returns is the empty string,
\* and an input of whitespace and empty quotes only returns no token at all,
\* as the empty input does.
C4_NoEmptyToken ==
    /\ \A i \in 1..Len(t_st.out_str) : t_st.out_str[i] # <<>>
    /\ t_pc = "done" =>
         /\ \A i \in 1..Len(t_result) : t_result[i] # <<>>
         /\ OnlyEmptyQuotes(t_input) => t_result = parse_args(<<>>)

\* A space, "" and a space return no token.
C4_Witness ==
    /\ t_pc = "done"
    /\ t_input = <<SP, DQ, DQ, SP>>
    /\ t_result = <<>>

\* C5: for an input without quote or backslash, joining the tokens with
\* single spaces and tokenizing again returns the same tokens.
C5_RoundTrip ==
    (t_pc = "done" /\ \A i \in 1..Len(t_input) : t_input[i] \notin {SQ, DQ, BS})
        => parse_args(join(t_result, <<SP>>)) = t_result

\* a, a tab, a space, a: two tokens.
C5_Witness ==
    /\ t_pc = "done"
    /\ t_input = <<"a", TAB, SP, "a">>
    /\ t_result = << <<"a">>, <<"a">> >>

\* C6: at the end of the input, whatever the quote state, parse_args returns:
\* with the escape flag set, the tokens so far and then the accumulator with
\* a backslash appended; otherwise the tokens so far and then the accumulator
\* when it is not empty.
C6_EndOfInput ==
    [][(t_pc = "loop" /\ t_pos = Len(t_input)) =>
        /\ t_pc' = "done"
        /\ t_st.escaped =>
             t_result' = Append(t_st.out_str, Append(t_st.current_str, BS))
        /\ (~t_st.escaped /\ t_st.current_str # <<>>) =>
             t_result' = Append(t_st.out_str, t_st.current_str)
        /\ (~t_st.escaped /\ t_st.current_str = <<>>) =>
             t_result' = t_st.out_str]_vars

\* "a\ : an unterminated double quote and a trailing backslash.
C6_Witness ==
    /\ t_pc = "done"
    /\ t_input = <<DQ, "a", BS>>
    /\ t_st.quote = "Double"
    /\ t_st.escaped
    /\ t_result = << <<"a", BS>> >>

----------------------------------------------------------------------------
(* Properties of the shell, checked under Spec                             *)

\* C7: an External command whose name the resolver does not find writes
\* "<name>: command not found" to standard output, and the loop goes on to
\* the next prompt.
C7_CommandNotFound ==
    (cmd.tag = "External"
        /\ cmd.name # <<>>
        /\ ~try_find_executable(path_dirs, cmd.name, cwd, files).some)
    => /\ pc = "prompt"
       /\ stdout = <<PromptStr, Println(cmd.name \o S_CmdNotFound)>>

\* C8: the path Cd hands to set_current_dir for a target ~r names the
\* directory HOME with r appended (read as text, or as a path under HOME);
\* any other target is handed over as it is.
C8_TildeUnderHome ==
    (cmd.tag = "Cd" /\ chdir_arg.some) =>
        IF strip_tilde(cmd.path).some
        THEN LET r == strip_tilde(cmd.path).v IN
             \/ Resolve(<<>>, chdir_arg.v) = Components(home.v \o r)
             \/ Resolve(<<>>, chdir_arg.v) = Components(home.v) \o Components(r)
        ELSE chdir_arg.v = cmd.path

\* A step of the loop in which a Cd succeeded.
CdSucceeds ==
    /\ pc = "read"
    /\ pc' = "prompt"
    /\ cmd'.tag = "Cd"
    /\ result'.tag = "Ok"

C10_CdFailure ==
    [][(pc = "read" /\ cmd'.tag = "Cd" /\ chdir_arg'.some
            /\ ~set_current_dir(cwd, chdir_arg'.v).some) =>
        LET typed == join(parse_args(split_once(trim_end(line')).args), <<SP>>)
            text  == S_CdPrefix \o typed \o S_NoSuchFile
        IN  /\ result' = Err("ShellMessage", text)
            /\ stderr' = <<Println(text)>>
            /\ stdout' = <<PromptStr>>
            /\ cwd' = cwd
            /\ pc' = "prompt"]_vars

\* cd ~h fails from a directory other than the startup directory.
C10_Witness ==
    /\ pc = "prompt"
    /\ cmd.tag = "Cd"
    /\ cmd.path = <<"~", "h">>
    /\ result.tag = "Err"
    /\ cwd = <<C_d>>
    /\ stderr = <<Println(S_CdPrefix \o <<"~", "h">> \o S_NoSuchFile)>>

----------------------------------------------------------------------------
(* Properties of the resolver, checked under SpecResolve                   *)

\* directory/name exists, is a regular file and has an execute bit set.
Qualifies(dir, name) ==
    LET m == Metadata(cwd, PathJoin(dir, name), files) IN
    /\ m.some
    /\ m.v.is_file
    /\ \E b \in ExecBits : b \in m.v.mode

\* C11: try_find_executable returns directory/name for the first directory of
\* the search path where it exists, is a regular file and has at least one
\* execute bit; directories before it whose entry is missing, not regular
\* or not executable are passed over; it returns None when no directory
\* qualifies, as for the empty search path.
C11_FirstQualifying ==
    r_pc = "done" =>
        LET Q == {i \in 1..Len(path_dirs) : Qualifies(path_dirs[i], r_name)} IN
        IF Q = {}
        THEN r_found = None
        ELSE \E k \in Q :
                /\ \A j \in Q : k <= j
                /\ r_found = Some(PathJoin(path_dirs[k], r_name))

\* /d/x is a regular file without execute bits and /h/d/x has only the
\* execute bit of others: the lookup of x in /d, /h/d returns /h/d/x.
C11_Witness ==
    /\ r_pc = "done"
    /\ r_name = C_x
    /\ path_dirs = << <<"/", "d">>, <<"/", "h", "/", "d">> >>
    /\ files[<<C_d, C_x>>] = File(Mode644)
    /\ files[<<C_h, C_d, C_x>>] = File(Mode001)
    /\ r_found = Some(<<"/", "h", "/", "d", "/", "x">>)

----------------------------------------------------------------------------
(* More properties of the shell, checked under Spec                        *)

\* The names of the builtin set.
BuiltinSet == {S_exit, S_echo, S_type, S_pwd, S_cd}

\* C12: Type with a name of the builtin set succeeds and writes
\* "<name> is a shell builtin" and nothing else, whatever the search path
\* holds, and it does so without calling the resolver; an iteration calls the
\* resolver only for Type with a name outside the set and for External.
C12_BuiltinPrecedence ==
    /\ (pc = "prompt" /\ cmd.tag = "Type" /\ cmd.arg \in BuiltinSet) =>
            /\ result = Ok
            /\ stdout = <<PromptStr, Println(cmd.arg \o S_IsBuiltin)>>
            /\ stderr = <<>>
            /\ r_pc = "idle"
    /\ r_pc = "done" =>
            \/ cmd.tag = "External"
            \/ cmd.tag = "Type" /\ cmd.arg \notin BuiltinSet

\* type cd, while /d/cd is an executable on the search path.
C12_Witness ==
    /\ pc = "prompt"
    /\ cmd.tag = "Type"
    /\ cmd.arg = S_cd
    /\ try_find_executable(path_dirs, S_cd, cwd, files) =
            Some(<<"/", "d", "/", "c", "d">>)
    /\ stdout = <<PromptStr, Println(S_cd \o S_IsBuiltin)>>

\* A step in which the command of the iteration returns an error.
ReturnsError ==
    /\ pc \in {"read", "wait"}
    /\ result'.tag = "Err"

\* C13: a step in which the command returns an error prints the error (a
\* NotFound or CommandNotFound on standard output, any other on standard
\* error) and leaves the loop at the top of its next iteration, with the
\* process still running; from there the prompt is printed and the loop is
\* again reading a line. This holds after the end of the input as well, where
\* read_line returns the empty line for ever.
C13_ErrorsKeepSession ==
    /\ [][ReturnsError =>
            LET text == Println(fmt(result')) IN
            /\ result'.kind \in {"Io", "ShellMessage", "CommandNotFound",
                                 "NotFound"}
            /\ IF result'.kind \in {"CommandNotFound", "NotFound"}
               THEN /\ stdout' = Append(stdout, text)
                    /\ stderr' = stderr
               ELSE /\ stderr' = Append(stderr, text)
                    /\ stdout' = stdout
            /\ pc' = "prompt"
            /\ exit_status' = None]_vars
    /\ [](pc \in {"exited", "aborted"} => result.tag = "Ok")
    /\ ((pc = "prompt" /\ result.tag = "Err")
            ~> (pc = "read" /\ stdout = <<PromptStr>>))

\* At the end of the input the empty line was read, its error is printed and
\* the loop is at the top of its next iteration.
C13_Witness ==
    /\ eof
    /\ pc = "prompt"
    /\ result = Err("NotFound", <<>>)
    /\ stdout = <<PromptStr, Println(S_NotFound)>>

\* The command name of a line as the specification describes it: the text
\* before the first whitespace character of the line.
RECURSIVE NameUpTo(_, _)
NameUpTo(l, i) ==
    IF i > Len(l) \/ is_whitespace(l[i]) THEN SubSeq(l, 1, i - 1)
    ELSE NameUpTo(l, i + 1)

CommandName(l) == NameUpTo(l, 1)

\* C14: the step that reads a line whose command name is exit, with or without
\* arguments, terminates the process with status 0; a terminated process
\* takes no further step (no prompt, no read); a process that has neither
\* terminated by exit nor aborted can take a step, so the session ends only
\* by an exit line.
C14_ExitEndsSession ==
    /\ [][(pc = "read" /\ CommandName(line') = S_exit) =>
            /\ pc' = "exited"
            /\ exit_status' = Some(0)]_vars
    /\ [][pc # "exited"]_vars
    /\ [](pc = "exited" => /\ CommandName(line) = S_exit
                           /\ exit_status = Some(0))
    /\ [](pc # "exited" => exit_status = None)
    /\ [](pc \notin {"exited", "aborted"} => ENABLED Next)

\* The argument remainder of a line as the specification describes it: the
\* text after the first whitespace character, empty when there is none.
Remainder(l) ==
    IF Len(CommandName(l)) = Len(l) THEN <<>>
    ELSE SubSeq(l, Len(CommandName(l)) + 2, Len(l))

\* C15: the command Command::parse makes of its input has the name before the
\* first whitespace character (space, tab or other) and the arguments
\* tokenized from the remainder; the name exit, echo, type, pwd or cd, matched
\* exactly, gives that builtin, any other name gives External with the name
\* and the argument list.
C15_SplitAtWhitespace ==
    cmd.tag # "None" =>
        LET input == trim_end(line)
            name == CommandName(input)
            parsed_args == parse_args(Remainder(input))
            text == join(parsed_args, <<SP>>)
        IN  cmd = CASE name = S_exit -> [tag |-> "Exit"]
                    [] name = S_echo -> [tag |-> "Echo", args |-> text]
                    [] name = S_type -> [tag |-> "Type", arg |-> text]
                    [] name = S_pwd  -> [tag |-> "Pwd"]
                    [] name = S_cd   -> [tag |-> "Cd", path |-> text]
                    [] OTHER -> [tag |-> "External", name |-> name,
                                 args |-> parsed_args]

\* The words of s: its maximal runs of characters that are not whitespace.
RECURSIVE WordsFrom(_, _, _, _)
WordsFrom(s, i, cur, acc) ==
    IF i > Len(s) THEN (IF cur = <<>> THEN acc ELSE Append(acc, cur))
    ELSE IF is_whitespace(s[i])
         THEN WordsFrom(s, i + 1, <<>>,
                        IF cur = <<>> THEN acc ELSE Append(acc, cur))
         ELSE WordsFrom(s, i + 1, Append(cur, s[i]), acc)

Words(s) == WordsFrom(s, 1, <<>>, <<>>)

\* s has no quote and no backslash
Plain(s) == \A i \in 1..Len(s) : s[i] \notin {BS, SQ, DQ}

----------------------------------------------------------------------------
(* The escape flag and the quote state, checked under SpecTok              *)

\* C17: in every state of the loop of parse_args the escape flag is not set
\* while the quote state is Single, and the unreachable!() branch of Consume
\* is not executed; the flag is set only by a backslash seen in the None or
\* Double state, that step leaves the quote state as it is, and so does the
\* next step, which consumes one character and clears the flag.
C17_NoEscapeInSingleQuote ==
    /\ [](/\ ~(t_st.escaped /\ t_st.quote = "Single")
          /\ ~t_st.panicked
          /\ t_pc # "panic")
    /\ [][\A c \in TokAlphabet : LoopStepOn(c) =>
            /\ (~t_st.escaped /\ t_st'.escaped) =>
                    /\ c = BS
                    /\ t_st.quote \in {"None", "Double"}
                    /\ t_st'.quote = t_st.quote
            /\ t_st.escaped =>
                    /\ t_st'.quote = t_st.quote
                    /\ ~t_st'.escaped]_vars

\* \'' followed by a backslash: the escaped quote opened nothing, the second
\* quote opened a single-quoted string, and the backslash in it is a
\* character of the token, with the flag not set.
C17_Witness ==
    /\ t_pc = "loop"
    /\ t_input = <<BS, SQ, SQ, BS>>
    /\ t_pos = 4
    /\ t_st.quote = "Single"
    /\ ~t_st.escaped
    /\ t_st.current_str = <<SQ, BS>>

----------------------------------------------------------------------------
(* External commands, checked under Spec                                   *)

\* C18: once the lookup of an External has succeeded, a child is spawned, it
\* is the file at the path the resolver returned, and its arguments are the
\* tokens of the remainder of the line in order; while the shell waits for
\* it nothing is written after the prompt, and the step that ends the wait
\* writes what the child wrote and leaves the loop at its next iteration.
C18_SpawnsResolvedFile ==
    /\ [](cmd.tag = "External" /\ r_pc = "done" /\ r_found.some =>
            /\ spawned.some
            /\ spawned.v.file = Resolve(cwd, r_found.v)
            /\ spawned.v.args = parse_args(split_once(trim_end(line)).args)
            /\ pc = "wait" => stdout = <<PromptStr>>)
    /\ [][pc = "wait" =>
            /\ pc' = "prompt"
            /\ result'.tag = "Ok" =>
                    \E o \in ChildOutputs : stdout' = Append(stdout, o)]_vars

----------------------------------------------------------------------------
(* The builtin table and the parser, checked under Spec                    *)

\* type n would report n as a shell builtin.
ReportsBuiltin(n) ==
    TypeRun(n, path_dirs, cwd, files) =
        [res |-> Ok, out |-> <<Println(n \o S_IsBuiltin)>>, looked |-> FALSE]

\* C19: `type n` writes "n is a shell builtin" exactly when Command::parse
\* makes a builtin (a command other than External) of the line n, and then
\* of every line n <rest>; and the command of every line read is a builtin
\* exactly when type reports its command name as one.
C19_TableAgreesWithParser ==
    /\ (pc = "prompt" /\ cmd.tag = "Type") =>
            LET n == cmd.arg IN
            /\ (stdout = <<PromptStr, Println(n \o S_IsBuiltin)>>)
                    <=> ReportsBuiltin(n)
            /\ IF \E i \in 1..Len(n) : n[i] = SP
               THEN ~ReportsBuiltin(n)
               ELSE /\ ReportsBuiltin(n) <=> parse(n).tag # "External"
                    /\ \A r \in ExtraArgs :
                            parse(n \o <<SP>> \o r).tag = parse(n).tag
    /\ cmd.tag # "None" =>
            (cmd.tag # "External"
                <=> ReportsBuiltin(split_once(trim_end(line)).name))

\* type pwd
C19_Witness ==
    /\ pc = "prompt"
    /\ line = S_type \o <<SP>> \o S_pwd
    /\ parse(S_pwd) = [tag |-> "Pwd"]
    /\ stdout = <<PromptStr, Println(S_pwd \o S_IsBuiltin)>>

----------------------------------------------------------------------------
(* The empty command name, checked under Spec                              *)

\* C20: the empty line and every line that begins with a space is parsed as
\* External with the empty name; the resolver finds nothing for the empty
\* name, in the search path of the shell and in every other one (directories,
\* a regular file, the empty entry); the iteration returns NotFound with the
\* empty name, which is printed as ": not found" on standard output, spawns
\* nothing and leaves the loop at its next iteration.
C20_EmptyName ==
    (cmd.tag # "None" /\ (line = <<>> \/ line[1] = SP)) =>
        /\ cmd.tag = "External"
        /\ cmd.name = <<>>
        /\ r_pc = "done"
        /\ r_found = None
        /\ \A dirs \in SeqsUpTo(ResolveDirs, MaxDirs) :
                ~try_find_executable(dirs, <<>>, cwd, files).some
        /\ result = Err("NotFound", <<>>)
        /\ stdout = <<PromptStr, Println(S_NotFound)>>
        /\ stderr = <<>>
        /\ spawned = None
        /\ pc = "prompt"

\* A blank and x, with executables on the search path.
C20_Witness ==
    /\ pc = "prompt"
    /\ line = <<SP, "x">>
    /\ cmd = [tag |-> "External", name |-> <<>>, args |-> <<C_x>>]
    /\ path_dirs = << <<"/", "d">>, <<"/", "h", "/", "d">> >>
    /\ files[<<C_d, C_x>>] = File(Mode755)
    /\ stdout = <<PromptStr, Println(S_NotFound)>>

====
